---- MODULE Spec2Model ----
(***************************************************************************)
(* Model of src/utils/updateWebsiteMaster.ts: updateWebsiteMaster (one     *)
(* HTTP PUT, response normalised into an UpdateWebsiteMasterResult) and    *)
(* updateWebsiteMasterFromFile (read websiteData.json, delegate).          *)
(*                                                                         *)
(* JavaScript strings are sequences of tokens, so that concatenation,      *)
(* the trailing-slash regex and "contains" are computed, not assumed.      *)
(* JavaScript values are records [t, v]: t is the type tag, v the payload. *)
(***************************************************************************)
EXTENDS Integers, Sequences, FiniteSets, TLC

VARIABLES pc, entry, env, fileOptions, websiteMaster, updateCalls, requests,
          response, caught, updateCompletion, outcome, result

vars == <<pc, entry, env, fileOptions, websiteMaster, updateCalls, requests,
          response, caught, updateCompletion, outcome, result>>

\* Longest apiUrl (in tokens) that a caller passes in the model.
MaxUrlLen == 2

----------------------------------------------------------------------------
\* JavaScript values

Absent    == [t |-> "absent", v |-> <<>>]
Undefined == [t |-> "undef", v |-> <<>>]
Null      == [t |-> "null", v |-> <<>>]
NaN       == [t |-> "nan", v |-> <<>>]
BigInt    == [t |-> "bigint", v |-> <<"1n">>]
Str(s)    == [t |-> "str", v |-> s]
Num(n)    == [t |-> "num", v |-> <<n>>]
Obj(tag)  == [t |-> "obj", v |-> <<tag>>]

\* Reading a property: a missing key reads as undefined.
Prop(x) == IF x.t = "absent" THEN Undefined ELSE x

\* ToBoolean, as used by `||`, `!` and `if`.
Truthy(x) ==
  /\ x.t \notin {"absent", "undef", "null", "nan"}
  /\ ~(x.t = "str" /\ x.v = <<>>)
  /\ ~(x.t = "num" /\ x.v = <<"0">>)

\* a || b
OrElse(a, b) == IF Truthy(a) THEN a ELSE b

Contains(s, tok) == \E i \in 1..Len(s) : s[i] = tok

----------------------------------------------------------------------------
\* Thrown values

Err(msg)  == [isError |-> TRUE, hasMessage |-> TRUE, message |-> msg]
NoThrow   == [isError |-> FALSE, hasMessage |-> FALSE, message |-> <<"none">>]
NoCaught  == [src |-> "none", value |-> NoThrow]

\* What a rejected fetch / readFile can carry: Error instances (with or
\* without text) and, from a replaced fetch, values that are not Errors.
ThrownValues ==
  { Err(<<"ECONNREFUSED">>),
    Err(<<>>),
    [isError |-> FALSE, hasMessage |-> FALSE, message |-> <<>>],
    [isError |-> FALSE, hasMessage |-> TRUE, message |-> <<"rejected">>] }

SyntaxError == Err(<<"Unexpected end of JSON input">>)
NullTypeError == Err(<<"Cannot read properties of null">>)
BigIntTypeError == Err(<<"Do not know how to serialize a BigInt">>)

----------------------------------------------------------------------------
\* updateWebsiteMaster: pure parts

UrlChars == {"h", "/"}
Urls == UNION { [1..n -> UrlChars] : n \in 0..MaxUrlLen }

FIXED_SUFFIX == <<"/api/userActions/update-website">>
Origin == <<"origin">>

\* apiUrl.replace(/\/$/, '')
StripTrailingSlash(u) ==
  IF Len(u) > 0 /\ u[Len(u)] = "/" THEN SubSeq(u, 1, Len(u) - 1) ELSE u

\* const { sendEmailNotification = true } = options
DefaultFalse(opt) == opt = "true"
SendEmailNotification(opt) == IF opt = "unset" THEN TRUE ELSE opt = "true"

\* if (apiUrl): the override is taken only when it is a non-empty string.
ApiUrlTaken(options) == options.apiUrl.set /\ options.apiUrl.url # <<>>

\* typeof window !== 'undefined' && window.location
HasOrigin(e) == e.window = "browser"

\* process.env.NEXT_PUBLIC_APP_URL, as a condition
AppUrlSet(e) == e.appUrl.set /\ e.appUrl.url # <<>>

EndpointNoStrip(options, e) ==
  IF ApiUrlTaken(options) THEN options.apiUrl.url \o FIXED_SUFFIX
  ELSE IF HasOrigin(e) THEN Origin \o FIXED_SUFFIX
  ELSE IF AppUrlSet(e) THEN e.appUrl.url \o FIXED_SUFFIX
  ELSE FIXED_SUFFIX

ResolveEndpoint(options, e) ==
  IF ApiUrlTaken(options)
    THEN StripTrailingSlash(options.apiUrl.url) \o FIXED_SUFFIX
  ELSE IF HasOrigin(e) THEN Origin \o FIXED_SUFFIX
  ELSE IF AppUrlSet(e) THEN e.appUrl.url \o FIXED_SUFFIX
  ELSE FIXED_SUFFIX

\* JSON.stringify on the updates mapping: a BigInt value throws, a key whose
\* value is undefined is dropped, NaN is written as null.
StringifyThrows(updates) ==
  updates._id.t = "bigint" \/ updates.pages.t = "bigint"

StringifyValue(x) ==
  IF x.t = "undef" THEN Absent ELSE IF x.t = "nan" THEN Null ELSE x

JSONStringify(updates) ==
  [kind |-> updates.kind,
   _id |-> StringifyValue(updates._id),
   pages |-> StringifyValue(updates.pages)]

\* The request handed to fetch.
Request(endpoint, websiteId, updates, options) ==
  [endpoint |-> endpoint,
   method |-> "PUT",
   contentType |-> "application/json",
   body |-> [websiteId |-> websiteId,
             updates |-> JSONStringify(updates),
             sendEmailNotification |->
               SendEmailNotification(options.sendEmailNotification)]]

\* Results
NoResult == [success |-> FALSE, message |-> Absent, websiteId |-> Absent,
             website |-> Absent, error |-> Absent]

Returned(r) == [kind |-> "return", value |-> r, thrown |-> NoCaught]
Thrown(src, e) ==
  [kind |-> "throw", value |-> NoResult, thrown |-> [src |-> src, value |-> e]]
NoCompletion == [kind |-> "none", value |-> NoResult, thrown |-> NoCaught]

\* response.ok
Ok(status) == status >= 200 /\ status <= 299

StatusToken(status) ==
  CASE status = 200 -> "200"
    [] status = 404 -> "404"
    [] status = 500 -> "500"

StatusText(status) ==
  CASE status = 200 -> "OK"
    [] status = 404 -> "Not Found"
    [] status = 500 -> "Internal Server Error"

\* `HTTP ${response.status}: ${response.statusText}`
HttpErrorString(status) ==
  Str(<<"HTTP ", StatusToken(status), ": ", StatusText(status)>>)

DefaultMessage == Str(<<"Website updated successfully">>)
UnknownError == Str(<<"Unknown error occurred">>)
ReadFallback == Str(<<"Failed to read websiteData.json">>)
MissingIdError ==
  Str(<<"websiteData.json does not contain _id field. Make sure the website has been saved to the database first.">>)

\* error instanceof Error ? error.message : fallback
ErrorText(e, fallback) == IF e.isError THEN Str(e.message) ELSE fallback

\* if (!response.ok) return { success: false, error: data.error || ..., websiteId }
NotOkResultEcho(data, status, websiteId) ==
  [success |-> FALSE, message |-> Absent, websiteId |-> Prop(data.websiteId),
   website |-> Absent,
   error |-> OrElse(Prop(data.error), HttpErrorString(status))]

NotOkResult(data, status, websiteId) ==
  [success |-> FALSE, message |-> Absent, websiteId |-> websiteId,
   website |-> Absent,
   error |-> OrElse(Prop(data.error), HttpErrorString(status))]

\* return { success: true, message: data.message || ..., websiteId: data.websiteId, website: data.website }
OkResultInputId(data, websiteId) ==
  [success |-> TRUE, message |-> OrElse(Prop(data.message), DefaultMessage),
   websiteId |-> websiteId, website |-> Prop(data.website),
   error |-> Absent]

OkResult(data, websiteId) ==
  [success |-> TRUE, message |-> OrElse(Prop(data.message), DefaultMessage),
   websiteId |-> Prop(data.websiteId), website |-> Prop(data.website),
   error |-> Absent]

\* catch (error) { return { success: false, error: ..., websiteId } }
UpdateCatchRethrow(src, e, websiteId) == Thrown(src, e)

UpdateCatchNoId(src, e, websiteId) ==
  [kind |-> "return",
   value |-> [success |-> FALSE, message |-> Absent, websiteId |-> Absent,
              website |-> Absent, error |-> ErrorText(e, UnknownError)],
   thrown |-> [src |-> src, value |-> e]]

UpdateCatch(src, e, websiteId) ==
  [kind |-> "return",
   value |-> [success |-> FALSE, message |-> Absent, websiteId |-> websiteId,
              website |-> Absent, error |-> ErrorText(e, UnknownError)],
   thrown |-> [src |-> src, value |-> e]]

\* response.json(): the body text either parses or throws a SyntaxError.
JsonThrows(body) == body.kind \in {"empty", "html"}

\* Everything after `await fetch(...)` resolved: lines 93-116.
HandleResponse(resp, websiteId) ==
  IF JsonThrows(resp.body) THEN UpdateCatch("json", SyntaxError, websiteId)
  ELSE IF resp.body.kind = "null"
    THEN UpdateCatch("data", NullTypeError, websiteId)
  ELSE IF ~Ok(resp.status)
    THEN Returned(NotOkResult(resp.body, resp.status, websiteId))
  ELSE Returned(OkResult(resp.body, websiteId))

----------------------------------------------------------------------------
\* updateWebsiteMasterFromFile: pure parts

\* JSON.parse(websiteDataContent)
ParseThrows(content) == content.kind \in {"empty", "html"}

\* if (!websiteMaster._id)
LacksIdNever(doc) == FALSE
LacksId(doc) == ~Truthy(Prop(doc._id))

MissingIdResult ==
  [success |-> FALSE, message |-> Absent, websiteId |-> Absent,
   website |-> Absent, error |-> MissingIdError]

\* catch (error) { return { success: false, error: ... } }
FromFileCatchRethrow(src, e) == Thrown(src, e)

FromFileCatch(src, e) ==
  [kind |-> "return",
   value |-> [success |-> FALSE, message |-> Absent, websiteId |-> Absent,
              website |-> Absent, error |-> ErrorText(e, ReadFallback)],
   thrown |-> [src |-> src, value |-> e]]

\* return await updateWebsiteMaster(...): the settled inner call is the
\* result; a rejection of it lands in the catch block.
FromFileSettle(c) ==
  IF c.kind = "throw" THEN FromFileCatch(c.thrown.src, c.thrown.value) ELSE c

\* The arguments of the delegated call: (websiteMaster._id, websiteMaster, options)
DelegateArgsIdOnly(doc, options) ==
  [websiteId |-> Prop(doc._id),
   updates |-> [doc EXCEPT !.pages = Absent],
   options |-> options]

DelegateArgs(doc, options) ==
  [websiteId |-> Prop(doc._id), updates |-> doc, options |-> options]

----------------------------------------------------------------------------
\* Inputs

OptionValues ==
  [sendEmailNotification : {"unset", "true", "false"},
   apiUrl : {[set |-> FALSE, url |-> <<>>]}
            \cup {[set |-> TRUE, url |-> u] : u \in Urls}]

EnvValues ==
  [window : {"none", "noLocation", "browser"},
   appUrl : {[set |-> FALSE, url |-> <<>>],
             [set |-> TRUE, url |-> <<>>],
             [set |-> TRUE, url |-> <<"env">>]}]

WebsiteIds == {Str(<<"abc123">>), Str(<<"507f1f77bcf86cd799439011">>)}

\* updates: Record<string, any>
UpdateValues ==
  [kind : {"object"},
   _id : {Absent},
   pages : {Absent, Obj("pages"), Undefined, NaN, BigInt}]

\* Text of a response body or of websiteData.json, by what parsing makes of it.
NoFields == [error |-> Absent, message |-> Absent, websiteId |-> Absent,
             website |-> Absent]

BodyValues ==
  {[kind |-> k] @@ NoFields : k \in {"empty", "null", "number"}}
  \cup [kind : {"object"},
        error : {Absent, Str(<<>>), Str(<<"not found">>)},
        message : {Absent, Str(<<>>), Str(<<"ok">>)},
        websiteId : {Absent, Str(<<"xyz">>)},
        website : {Absent, Obj("a1")}]

Statuses == {200, 404, 500}

NoResponse == [status |-> 0, body |-> [kind |-> "none"] @@ NoFields]

FileValues ==
  {[kind |-> k, _id |-> Absent, pages |-> Absent] :
      k \in {"empty", "null", "number"}}
  \cup [kind : {"object"},
        _id : {Absent, Str(<<>>), Null, Str(<<"abc123">>)},
        pages : {Absent, Obj("pages")}]

NoFile == [kind |-> "none", _id |-> Absent, pages |-> Absent]
NoOptions == [sendEmailNotification |-> "unset",
              apiUrl |-> [set |-> FALSE, url |-> <<>>]]
NoEnv == [window |-> "none", appUrl |-> [set |-> FALSE, url |-> <<>>]]

----------------------------------------------------------------------------
\* State machine

Init ==
  /\ pc = "idle"
  /\ entry = "none"
  /\ env = NoEnv
  /\ fileOptions = NoOptions
  /\ websiteMaster = NoFile
  /\ updateCalls = <<>>
  /\ requests = <<>>
  /\ response = NoResponse
  /\ caught = NoCaught
  /\ updateCompletion = NoCompletion
  /\ outcome = "pending"
  /\ result = NoResult

\* The promise of the public operation settles with completion c of the
\* (inner) updateWebsiteMaster call, or with c itself for the file wrapper's
\* own exits (inner = FALSE).
Settle(ent, c, inner) ==
  LET final == IF ent = "fromFile" /\ inner THEN FromFileSettle(c) ELSE c
  IN /\ pc' = "done"
     /\ updateCompletion' = IF inner THEN c ELSE updateCompletion
     /\ outcome' = IF final.kind = "throw" THEN "rejected" ELSE "resolved"
     /\ result' = final.value
     /\ caught' = final.thrown

\* updateWebsiteMaster up to `await fetch(...)`: lines 63-91.
UpdateBegin(ent, args, e) ==
  /\ updateCalls' = Append(updateCalls, args)
  /\ IF StringifyThrows(args.updates)
       THEN /\ Settle(ent, UpdateCatch("stringify", BigIntTypeError,
                                        args.websiteId), TRUE)
            /\ UNCHANGED requests
       ELSE /\ requests' = Append(requests,
                 Request(ResolveEndpoint(args.options, e), args.websiteId,
                         args.updates, args.options))
            /\ pc' = "awaitFetch"
            /\ UNCHANGED <<caught, updateCompletion, outcome, result>>

CallUpdate ==
  /\ pc = "idle"
  /\ \E websiteId \in WebsiteIds, updates \in UpdateValues,
        options \in OptionValues, e \in EnvValues :
       /\ entry' = "update"
       /\ env' = e
       /\ UpdateBegin("update", [websiteId |-> websiteId, updates |-> updates,
                                 options |-> options], e)
  /\ UNCHANGED <<fileOptions, websiteMaster, response>>

\* fetch rejects: catch block, lines 109-116.
FetchRejects ==
  /\ pc = "awaitFetch"
  /\ \E e \in ThrownValues :
       Settle(entry, UpdateCatch("fetch", e, updateCalls[1].websiteId), TRUE)
  /\ UNCHANGED <<entry, env, fileOptions, websiteMaster, updateCalls, requests,
                 response>>

\* fetch resolves with a response of any status and body.
FetchResolves ==
  /\ pc = "awaitFetch"
  /\ \E status \in Statuses, body \in BodyValues :
       response' = [status |-> status, body |-> body]
  /\ pc' = "awaitJson"
  /\ UNCHANGED <<entry, env, fileOptions, websiteMaster, updateCalls, requests,
                 caught, updateCompletion, outcome, result>>

\* await response.json() and the rest of the try block: lines 93-108.
ResponseJson ==
  /\ pc = "awaitJson"
  /\ Settle(entry, HandleResponse(response, updateCalls[1].websiteId), TRUE)
  /\ UNCHANGED <<entry, env, fileOptions, websiteMaster, updateCalls, requests,
                 response>>

\* updateWebsiteMasterFromFile up to `await fs.readFile(...)`: lines 137-140.
CallFromFile ==
  /\ pc = "idle"
  /\ \E options \in OptionValues, e \in EnvValues :
       /\ fileOptions' = options
       /\ env' = e
  /\ entry' = "fromFile"
  /\ pc' = "awaitRead"
  /\ UNCHANGED <<websiteMaster, updateCalls, requests, response, caught,
                 updateCompletion, outcome, result>>

\* import('fs/promises') or readFile rejects: catch block, lines 152-158.
ReadFileRejects ==
  /\ pc = "awaitRead"
  /\ \E e \in ThrownValues : Settle(entry, FromFileCatch("read", e), FALSE)
  /\ UNCHANGED <<entry, env, fileOptions, websiteMaster, updateCalls, requests,
                 response>>

\* readFile resolves: JSON.parse, the _id check and the delegation, lines 141-151.
ReadFileResolves ==
  /\ pc = "awaitRead"
  /\ \E content \in FileValues :
       /\ websiteMaster' = content
       /\ IF ParseThrows(content)
            THEN /\ Settle(entry, FromFileCatch("parse", SyntaxError), FALSE)
                 /\ UNCHANGED <<updateCalls, requests>>
          ELSE IF content.kind = "null"
            THEN /\ Settle(entry, FromFileCatch("data", NullTypeError), FALSE)
                 /\ UNCHANGED <<updateCalls, requests>>
          ELSE IF LacksId(content)
            THEN /\ Settle(entry, Returned(MissingIdResult), FALSE)
                 /\ UNCHANGED <<updateCalls, requests>>
          ELSE UpdateBegin(entry, DelegateArgs(content, fileOptions), env)
  /\ UNCHANGED <<entry, env, fileOptions, response>>

Next ==
  \/ CallUpdate
  \/ FetchRejects
  \/ FetchResolves
  \/ ResponseJson
  \/ CallFromFile
  \/ ReadFileRejects
  \/ ReadFileResolves

Spec == Init /\ [][Next]_vars

----------------------------------------------------------------------------
\* Properties

Done == pc = "done"
UpdateCalled == Len(updateCalls) = 1
Responded == response.status # 0

IsSuccess(r) == r.success /\ r.error = Absent
IsFailure(r) ==
  ~r.success /\ r.error # Absent /\ r.message = Absent /\ r.website = Absent

\* C1: an invocation of updateWebsiteMaster never rejects, and once settled
\* its value is exactly one of Success or Failure.
C1_UpdateNeverRaises ==
  entry = "update" =>
    /\ outcome # "rejected"
    /\ Done => /\ outcome = "resolved"
               /\ IsSuccess(result) # IsFailure(result)

\* An exception thrown by fetch was caught and turned into a Failure.
C1_Witness ==
  /\ entry = "update" /\ Done
  /\ caught.src = "fetch"
  /\ outcome = "resolved" /\ IsFailure(result)

\* C2 as stated: on a non-2xx status the Failure carries the body's error
\* field whenever that field is present, and the synthesized status string
\* otherwise; the identifier is the one passed in.
C2_Original ==
  (UpdateCalled /\ Done /\ Responded /\ ~Ok(response.status)) =>
    /\ ~result.success
    /\ result.websiteId = updateCalls[1].websiteId
    /\ result.error = IF response.body.error # Absent
                        THEN response.body.error
                        ELSE HttpErrorString(response.status)

\* C2 amended: on a non-2xx status the result is a Failure echoing the input
\* identifier; when the body parses to a non-null JSON value, the error is the
\* body's error field if that field is truthy (present and not empty), and the
\* synthesized "HTTP <status>: <statusText>" string otherwise.
C2_NonOkFailure ==
  (UpdateCalled /\ Done /\ Responded /\ ~Ok(response.status)) =>
    /\ ~result.success
    /\ result.websiteId = updateCalls[1].websiteId
    /\ response.body.kind \in {"number", "object"} =>
         result.error =
           IF response.body.error \in {Absent, Str(<<>>)}
             THEN Str(<<"HTTP ", StatusToken(response.status), ": ",
                        StatusText(response.status)>>)
             ELSE response.body.error

\* 404 with body {"error": "not found"}.
C2_Witness ==
  /\ UpdateCalled /\ Done
  /\ response.status = 404
  /\ response.body.error = Str(<<"not found">>)
  /\ response.body.websiteId = Str(<<"xyz">>)
  /\ ~result.success
  /\ result.error = Str(<<"not found">>)
  /\ result.websiteId = updateCalls[1].websiteId

\* C3: a 500 response with an empty body gives a Failure whose error string
\* contains "500".
C3_EmptyBody500 ==
  (UpdateCalled /\ Done /\ response.status = 500
     /\ response.body.kind = "empty") =>
    /\ ~result.success
    /\ Contains(result.error.v, "500")

\* C4 as stated: on a 2xx status with a parsable JSON body the result is a
\* Success whose message is the body's message, or the default when the body
\* omits it, with identifier and record taken from the body.
C4_Original ==
  (UpdateCalled /\ Done /\ Responded /\ Ok(response.status)
     /\ response.body.kind # "empty") =>
    /\ result.success
    /\ result.message = IF response.body.message # Absent
                          THEN response.body.message
                          ELSE DefaultMessage
    /\ result.websiteId = Prop(response.body.websiteId)
    /\ result.website = Prop(response.body.website)

\* C4 amended: on a 2xx status with a body that parses to a non-null JSON
\* value the result is a Success whose message is the body's message if that
\* is truthy (present and not empty) and the default string otherwise, whose
\* identifier is the body's websiteId (not the input) and whose record is the
\* body's website, either of which may be undefined.
C4_OkSuccess ==
  (UpdateCalled /\ Done /\ Responded /\ Ok(response.status)
     /\ response.body.kind \in {"number", "object"}) =>
    /\ result.success
    /\ result.error = Absent
    /\ result.message = IF response.body.message \in {Absent, Str(<<>>)}
                          THEN Str(<<"Website updated successfully">>)
                          ELSE response.body.message
    /\ result.websiteId = IF response.body.websiteId = Absent
                            THEN Undefined ELSE response.body.websiteId
    /\ result.website = IF response.body.website = Absent
                          THEN Undefined ELSE response.body.website

\* 200 with body {"message": "ok", "websiteId": "xyz", "website": {...}}.
C4_Witness ==
  /\ entry = "update" /\ Done
  /\ response.status = 200
  /\ updateCalls[1].websiteId = Str(<<"abc123">>)
  /\ result = [success |-> TRUE, message |-> Str(<<"ok">>),
               websiteId |-> Str(<<"xyz">>), website |-> Obj("a1"),
               error |-> Absent]

\* C5 as stated: when fetch or response.json() throws, the Failure carries
\* the caught value's message, or the fallback when it carries no message.
C5_Original ==
  (UpdateCalled /\ Done /\ caught.src \in {"fetch", "json"}) =>
    /\ ~result.success
    /\ result.websiteId = updateCalls[1].websiteId
    /\ result.error = IF caught.value.hasMessage
                        THEN Str(caught.value.message)
                        ELSE UnknownError

\* C5 amended: when fetch or response.json() throws, the result is a Failure
\* echoing the input identifier whose error is the caught value's message if
\* the caught value is an Error instance, and the fixed fallback string for
\* every other caught value, even one that carries a message.
C5_ThrownFailure ==
  (UpdateCalled /\ Done /\ caught.src \in {"fetch", "json"}) =>
    /\ ~result.success
    /\ result.websiteId = updateCalls[1].websiteId
    /\ result.error = IF caught.value.isError
                        THEN Str(caught.value.message)
                        ELSE Str(<<"Unknown error occurred">>)

\* fetch rejected with an Error whose message is "ECONNREFUSED".
C5_Witness ==
  /\ entry = "update" /\ Done
  /\ caught = [src |-> "fetch", value |-> Err(<<"ECONNREFUSED">>)]
  /\ ~result.success
  /\ result.error = Str(<<"ECONNREFUSED">>)
  /\ result.websiteId = updateCalls[1].websiteId

JsonValue(x) == x.t \in {"absent", "null", "str", "num", "obj"}

\* C7 as stated: every invocation sends exactly one PUT request whose body
\* holds the identifier and the updates exactly as passed, with
\* sendEmailNotification true unless the caller set it to false.
C7_Original ==
  /\ Len(requests) <= 1
  /\ (UpdateCalled /\ Done) =>
       /\ Len(requests) = 1
       /\ requests[1].method = "PUT"
       /\ requests[1].contentType = "application/json"
       /\ requests[1].body.websiteId = updateCalls[1].websiteId
       /\ requests[1].body.updates = updateCalls[1].updates
       /\ requests[1].body.sendEmailNotification =
            (updateCalls[1].options.sendEmailNotification # "false")

\* C7 amended: an invocation never sends more than one request; it sends none
\* when JSON.stringify throws on the updates, and otherwise exactly one: a PUT
\* with Content-Type application/json whose body holds the identifier as
\* passed, sendEmailNotification equal to the option (true when unset), and
\* the updates exactly as passed whenever every value in it is a JSON value.
C7_SingleRequest ==
  /\ Len(requests) <= 1
  /\ UpdateCalled =>
       LET a == updateCalls[1]
       IN IF a.updates._id.t = "bigint" \/ a.updates.pages.t = "bigint"
            THEN requests = <<>>
            ELSE /\ Len(requests) = 1
                 /\ requests[1].method = "PUT"
                 /\ requests[1].contentType = "application/json"
                 /\ requests[1].body.websiteId = a.websiteId
                 /\ requests[1].body.sendEmailNotification =
                      (a.options.sendEmailNotification # "false")
                 /\ (JsonValue(a.updates._id) /\ JsonValue(a.updates.pages))
                      => requests[1].body.updates = a.updates

\* A settled call made without the option: the body says true.
C7_Witness ==
  /\ entry = "update" /\ Done
  /\ updateCalls[1].options.sendEmailNotification = "unset"
  /\ updateCalls[1].updates.pages = Obj("pages")
  /\ Len(requests) = 1
  /\ requests[1].body.sendEmailNotification = TRUE
  /\ requests[1].body.updates = updateCalls[1].updates

C9_Original ==
  (entry = "fromFile" /\ websiteMaster.kind = "object"
     /\ websiteMaster._id # Absent) =>
    /\ updateCalls = <<[websiteId |-> websiteMaster._id,
                        updates |-> websiteMaster,
                        options |-> fileOptions]>>
    /\ Done => /\ outcome = "resolved"
               /\ updateCompletion.kind = "return"
               /\ result = updateCompletion.value

\* C9 amended: whenever the parsed document contains a truthy _id field (not
\* null, not the empty string), update is called with (document._id,
\* document, options) and its result is returned unchanged.
C9_Delegates ==
  (entry = "fromFile" /\ websiteMaster.kind = "object"
     /\ websiteMaster._id \notin {Absent, Null, Str(<<>>)}) =>
    /\ updateCalls = <<[websiteId |-> websiteMaster._id,
                        updates |-> websiteMaster,
                        options |-> fileOptions]>>
    /\ Len(requests) = 1
    /\ requests[1].body.websiteId = websiteMaster._id
    /\ requests[1].body.updates = websiteMaster
    /\ Done => /\ outcome = "resolved"
               /\ updateCompletion.kind = "return"
               /\ result = updateCompletion.value

\* A document with _id "abc123" was sent whole and the Success came back.
C9_Witness ==
  /\ entry = "fromFile" /\ Done
  /\ websiteMaster = [kind |-> "object", _id |-> Str(<<"abc123">>),
                      pages |-> Obj("pages")]
  /\ updateCalls[1].websiteId = Str(<<"abc123">>)
  /\ updateCalls[1].updates = websiteMaster
  /\ result.success
  /\ result.website = Obj("a1")

\* C10: the file wrapper never rejects; whatever was thrown while reading,
\* parsing or updating, it settles with a Failure whose error is the thrown
\* value's message or a fixed fallback, and a read or parse failure leaves
\* the request count at zero.
C10_FromFileNeverRaises ==
  entry = "fromFile" =>
    /\ outcome # "rejected"
    /\ Done => /\ outcome = "resolved"
               /\ IsSuccess(result) # IsFailure(result)
    /\ caught.src # "none" =>
         /\ Done
         /\ ~result.success
         /\ result.error \in {Str(caught.value.message), UnknownError,
                              ReadFallback}
    /\ caught.src \in {"read", "parse"} =>
         /\ result.error \in {Str(caught.value.message), ReadFallback}
         /\ result.websiteId = Absent
         /\ requests = <<>>
         /\ updateCalls = <<>>

\* readFile rejected with a value that is not an Error: fallback, no request.
C10_Witness ==
  /\ entry = "fromFile" /\ Done
  /\ caught.src = "read" /\ ~caught.value.isError
  /\ outcome = "resolved"
  /\ result.error = ReadFallback
  /\ requests = <<>>

====
